---- MODULE Spec2Model ----
(***************************************************************************)
(* A model of fix.py, the fixed-interest calculator: the loan payment      *)
(* formula, the amortization schedule generator, the compound-interest     *)
(* formula and the command-line / interactive front end.                   *)
(*                                                                         *)
(* Python's float is IEEE-754 binary64.  Its values are modelled exactly:  *)
(* a float is a sign, a 53-bit mantissa and an exponent, and every         *)
(* arithmetic operation is the exact result rounded to nearest, ties to    *)
(* even.  Mantissas do not fit the model checker's integers, so natural    *)
(* numbers are little-endian sequences of limbs in base 2^15.  Exponent    *)
(* range (overflow, subnormals) is not modelled: the inputs stay far from  *)
(* both ends.                                                              *)
(*                                                                         *)
(* Intermediate values are passed on as operator parameters, one operator  *)
(* per step of a computation.                                              *)
(***************************************************************************)
EXTENDS Integers, Sequences, FiniteSets, TLC

(***************************************************************************)
(* Natural numbers of arbitrary size                                       *)
(***************************************************************************)
Base == 32768
LimbBits == 15

RECURSIVE NStrip(_)
NStrip(a) ==
    IF a = << >> THEN a
    ELSE IF a[Len(a)] = 0 THEN NStrip(SubSeq(a, 1, Len(a) - 1))
    ELSE a

RECURSIVE NFromInt(_)
NFromInt(i) == IF i = 0 THEN << >> ELSE <<i % Base>> \o NFromInt(i \div Base)

RECURSIVE NToIntFrom(_, _)
NToIntFrom(a, k) ==
    IF k > Len(a) THEN 0 ELSE a[k] + Base * NToIntFrom(a, k + 1)

NToInt(a) == NToIntFrom(a, 1)

NLimb(a, k) == IF k <= Len(a) THEN a[k] ELSE 0

NMaxLen(a, b) == IF Len(a) < Len(b) THEN Len(b) ELSE Len(a)

\* the limb and the carry of s < Base * Base
NCarry(s) == [s |-> <<s % Base>>, c |-> s \div Base]

\* the limb and the borrow of d > -Base
NBorrow(d) ==
    IF d < 0 THEN [s |-> <<d + Base>>, c |-> 1] ELSE [s |-> <<d>>, c |-> 0]

\* the limbs of r, and its carry out as one more limb
NWithCarry(r) == IF r.c = 0 THEN r.s ELSE r.s \o <<r.c>>

\* The carry chains below split the limbs lo..hi in halves, the carry out of
\* the low half entering the high half; each returns the limbs and the
\* carry (borrow) out.
RECURSIVE NAddRange(_, _, _, _, _)
NAddRange(a, b, lo, hi, c) ==
    IF lo = hi THEN NCarry(NLimb(a, lo) + NLimb(b, lo) + c)
    ELSE LET mid  == (lo + hi) \div 2
             low  == NAddRange(a, b, lo, mid, c)
             high == NAddRange(a, b, mid + 1, hi, low.c)
         IN  [s |-> low.s \o high.s, c |-> high.c]

NAdd(a, b) ==
    IF a = << >> THEN b
    ELSE IF b = << >> THEN a
    ELSE NWithCarry(NAddRange(a, b, 1, NMaxLen(a, b), 0))

RECURSIVE NCmpRange(_, _, _, _)
NCmpRange(a, b, lo, hi) ==
    IF lo = hi
    THEN (IF a[lo] < b[lo] THEN -1 ELSE IF a[lo] > b[lo] THEN 1 ELSE 0)
    ELSE LET mid  == (lo + hi) \div 2
             high == NCmpRange(a, b, mid + 1, hi)
         IN  IF high # 0 THEN high ELSE NCmpRange(a, b, lo, mid)

\* -1, 0 or 1 as a < b, a = b, a > b
NCmp(a, b) ==
    IF Len(a) < Len(b) THEN -1
    ELSE IF Len(a) > Len(b) THEN 1
    ELSE IF a = << >> THEN 0
    ELSE NCmpRange(a, b, 1, Len(a))

RECURSIVE NSubRange(_, _, _, _, _)
NSubRange(a, b, lo, hi, c) ==
    IF lo = hi THEN NBorrow(a[lo] - NLimb(b, lo) - c)
    ELSE LET mid  == (lo + hi) \div 2
             low  == NSubRange(a, b, lo, mid, c)
             high == NSubRange(a, b, mid + 1, hi, low.c)
         IN  [s |-> low.s \o high.s, c |-> high.c]

\* a - b, for a >= b
NSub(a, b) ==
    IF b = << >> THEN a ELSE NStrip(NSubRange(a, b, 1, Len(a), 0).s)

RECURSIVE NMulSmallRange(_, _, _, _, _)
NMulSmallRange(a, d, lo, hi, c) ==
    IF lo = hi THEN NCarry(a[lo] * d + c)
    ELSE LET mid  == (lo + hi) \div 2
             low  == NMulSmallRange(a, d, lo, mid, c)
             high == NMulSmallRange(a, d, mid + 1, hi, low.c)
         IN  [s |-> low.s \o high.s, c |-> high.c]

\* a * d, for 0 <= d < Base
NMulSmall(a, d) ==
    IF d = 0 \/ a = << >> THEN << >>
    ELSE NWithCarry(NMulSmallRange(a, d, 1, Len(a), 0))

\* k zero limbs
RECURSIVE NZeros(_)
NZeros(k) ==
    IF k = 0 THEN << >>
    ELSE IF k = 1 THEN <<0>>
    ELSE NZeros(k \div 2) \o NZeros(k - k \div 2)

\* a * Base^k
NShiftLimbs(a, k) == IF a = << >> THEN a ELSE NZeros(k) \o a

\* a times the number made of the limbs lo..hi of b
RECURSIVE NMulRange(_, _, _, _)
NMulRange(a, b, lo, hi) ==
    IF lo = hi THEN NMulSmall(a, b[lo])
    ELSE LET mid == (lo + hi) \div 2
         IN  NAdd(NMulRange(a, b, lo, mid),
                  NShiftLimbs(NMulRange(a, b, mid + 1, hi), mid + 1 - lo))

\* a * b
NMul(a, b) ==
    IF a = << >> \/ b = << >> THEN << >> ELSE NMulRange(a, b, 1, Len(b))

\* a ^ n by squaring
RECURSIVE NPow(_, _)
NPow(a, n) ==
    IF n = 0 THEN <<1>>
    ELSE LET h == NPow(a, n \div 2)
         IN  NMul(IF n % 2 = 1 THEN a ELSE h,
                  IF n % 2 = 1 THEN NPow(a, n - 1) ELSE h)

RECURSIVE Pow2(_)
Pow2(k) == IF k = 0 THEN 1 ELSE 2 * Pow2(k - 1)

\* 2^k
NPow2(k) == NZeros(k \div LimbBits) \o <<Pow2(k % LimbBits)>>

\* a * Base^z * f for a > 0 and a power of two f < Base: every limb of the
\* result comes from two neighbouring limbs of a
NShlBy(a, z, f) ==
    LET n    == Len(a)
        top  == (a[n] * f) \div Base
        body == [i \in 1..(n + z) |->
                   IF i <= z THEN 0
                   ELSE ((a[i - z] * f) % Base)
                        + (IF i - z > 1 THEN (a[i - z - 1] * f) \div Base
                           ELSE 0)]
    IN  IF top = 0 THEN body ELSE body \o <<top>>

\* a * 2^k
NShl(a, k) ==
    IF a = << >> THEN a ELSE NShlBy(a, k \div LimbBits, Pow2(k % LimbBits))

\* a div (Base^z * f) for a power of two f < Base
NShrBy(a, z, f) ==
    IF z >= Len(a) THEN << >>
    ELSE NStrip([i \in 1..(Len(a) - z) |->
                   (a[i + z] \div f)
                   + (NLimb(a, i + z + 1) % f) * (Base \div f)])

\* a div 2^k
NShr(a, k) == NShrBy(a, k \div LimbBits, Pow2(k % LimbBits))

\* bit k of a, the lowest bit being bit 0
NBit(a, k) == (NLimb(a, k \div LimbBits + 1) \div Pow2(k % LimbBits)) % 2

\* a mod 2^k = 0
NLowBitsZero(a, k) ==
    /\ \A i \in 1..(k \div LimbBits) : NLimb(a, i) = 0
    /\ NLimb(a, k \div LimbBits + 1) % Pow2(k % LimbBits) = 0

RECURSIVE SmallBitLen(_)
SmallBitLen(d) == IF d = 0 THEN 0 ELSE 1 + SmallBitLen(d \div 2)

\* the number of bits of a
NBitLen(a) ==
    IF a = << >> THEN 0
    ELSE (Len(a) - 1) * LimbBits + SmallBitLen(a[Len(a)])

\* the largest digit d in lo..hi with d * b <= r, given lo * b <= r
RECURSIVE NDigit(_, _, _, _)
NDigit(r, b, lo, hi) ==
    IF lo = hi THEN lo
    ELSE LET mid == (lo + hi + 1) \div 2
         IN  IF NCmp(NMulSmall(b, mid), r) <= 0
             THEN NDigit(r, b, mid, hi)
             ELSE NDigit(r, b, lo, mid - 1)

\* One step of the long division by b: q is the quotient so far, r0 the
\* remainder so far with the next limb appended, d the next digit.
NDivStep(q, r0, b, d) ==
    [q |-> NStrip(<<d>> \o q),
     r |-> IF d = 0 THEN r0 ELSE NSub(r0, NMulSmall(b, d))]

NDivDigit(q, r0, b) ==
    NDivStep(q, r0, b,
             IF NCmp(r0, b) < 0 THEN 0 ELSE NDigit(r0, b, 1, Base - 1))

\* long division of a by b, most significant limb first; the state is the
\* quotient and the remainder so far.  The top Len(b) - 1 limbs of a are
\* less than b and start the remainder.
RECURSIVE NDivModFrom(_, _, _)
NDivModFrom(a, b, k) ==
    IF k > Len(a) - Len(b) + 1
    THEN [q |-> << >>, r |-> NStrip(SubSeq(a, k, Len(a)))]
    ELSE LET up == NDivModFrom(a, b, k + 1)
         IN  NDivDigit(up.q, NStrip(<<a[k]>> \o up.r), b)

\* division of the limbs lo..hi of a by a single limb d, the remainder rem
\* coming in from the limbs above; high half first
RECURSIVE NDivSmallRange(_, _, _, _, _)
NDivSmallRange(a, d, lo, hi, rem) ==
    IF lo = hi
    THEN [q |-> <<(rem * Base + a[lo]) \div d>>, r |-> (rem * Base + a[lo]) % d]
    ELSE LET mid  == (lo + hi) \div 2
             high == NDivSmallRange(a, d, mid + 1, hi, rem)
             low  == NDivSmallRange(a, d, lo, mid, high.r)
         IN  [q |-> low.q \o high.q, r |-> low.r]

NDivSmallResult(qr) == [q |-> NStrip(qr.q), r |-> NFromInt(qr.r)]

\* [q |-> a div b, r |-> a mod b], for b > 0
NDivMod(a, b) ==
    IF a = << >> THEN [q |-> << >>, r |-> << >>]
    ELSE IF Len(b) = 1
    THEN NDivSmallResult(NDivSmallRange(a, b[1], 1, Len(a), 0))
    ELSE NDivModFrom(a, b, 1)

NIsOdd(a) == a # << >> /\ a[1] % 2 = 1

\* a / 2^k rounded to the nearest natural number, ties to the even one,
\* given q = a div 2^k
NRoundShrOf(a, k, q) ==
    IF /\ k > 0
       /\ NBit(a, k - 1) = 1
       /\ (~NLowBitsZero(a, k - 1) \/ NIsOdd(q))
    THEN NAdd(q, <<1>>)
    ELSE q

\* a / 2^k rounded to the nearest natural number, ties to the even one
NRoundShr(a, k) == NRoundShrOf(a, k, NShr(a, k))

(***************************************************************************)
(* Python floats (IEEE-754 binary64, round to nearest, ties to even)       *)
(*                                                                         *)
(* A float is [neg, m, e] with value (-1)^neg * m * 2^e, where m is zero   *)
(* or has exactly Prec bits.  The sign of zero is not modelled.            *)
(***************************************************************************)
Prec == 53

FZero == [neg |-> FALSE, m |-> << >>, e |-> 0]

\* the float (-1)^neg * q * 2^e for q of Prec bits, or of Prec + 1 bits when
\* the rounding carried into a new bit (q is then 2^Prec)
RoundDCarry(neg, q, e) ==
    IF NBitLen(q) > Prec THEN [neg |-> neg, m |-> NPow2(Prec - 1), e |-> e + 1]
    ELSE [neg |-> neg, m |-> q, e |-> e]

\* the float nearest to (-1)^neg * n * 2^e, for n > 0 of L bits
RoundDBits(neg, n, e, L) ==
    IF L <= Prec
    THEN [neg |-> neg, m |-> NShl(n, Prec - L), e |-> e - (Prec - L)]
    ELSE RoundDCarry(neg, NRoundShr(n, L - Prec), e + (L - Prec))

\* the float nearest to (-1)^neg * n * 2^e, for a natural number n
RoundD(neg, n, e) ==
    IF n = << >> THEN FZero ELSE RoundDBits(neg, n, e, NBitLen(n))

\* the bits that the rounding of a quotient looks at
GuardBits == 8

\* the quotient qr.q with a lowest bit added that says whether the
\* remainder qr.r is not zero, for a dividend that was shifted by s bits
QuotientSticky(qr, s) ==
    [n |-> NAdd(NMulSmall(qr.q, 2), IF qr.r = << >> THEN << >> ELSE <<1>>),
     e |-> -s - 1]

QuotientShifted(num, den, s) == QuotientSticky(NDivMod(NShl(num, s), den), s)

\* num / den as [n, e]: n * 2^e is the quotient cut after at least
\* Prec + GuardBits bits, the lowest bit of n saying whether anything was cut
Quotient(num, den) ==
    QuotientShifted(num, den,
        IF Prec + GuardBits + NBitLen(den) > NBitLen(num)
        THEN Prec + GuardBits + NBitLen(den) - NBitLen(num)
        ELSE 0)

\* the float nearest to (-1)^neg * q.n * 2^(q.e + e)
RoundQuotient(neg, q, e) == RoundD(neg, q.n, e + q.e)

\* the float nearest to (-1)^neg * (num / den) * 2^e, for den > 0
RoundQ(neg, num, den, e) ==
    IF num = << >> THEN FZero ELSE RoundQuotient(neg, Quotient(num, den), e)

\* the floats lo and hi around a value whose distance from lo is rem16 / 16
\* and from hi is (16 * ulp - rem16) / 16: those less than 9/16 ulp away
NearDPick(lo, hi, rem16, ulp) ==
    IF NCmp(rem16, NMulSmall(ulp, 7)) <= 0 THEN {lo}
    ELSE IF NCmp(rem16, NMulSmall(ulp, 9)) >= 0 THEN {hi}
    ELSE {lo, hi}

\* n of more than Prec bits cut to q = n div 2^k of Prec bits
NearDCut(neg, n, e, k, q) ==
    NearDPick([neg |-> neg, m |-> q, e |-> e + k],
              RoundDCarry(neg, NAdd(q, <<1>>), e + k),
              NMulSmall(NSub(n, NShl(q, k)), 16),
              NPow2(k))

NearDBits(neg, n, e, L) ==
    IF L <= Prec THEN {RoundDBits(neg, n, e, L)}
    ELSE NearDCut(neg, n, e, L - Prec, NShr(n, L - Prec))

\* The C library's pow is not correctly rounded: its documented error is
\* below 0.54 units in the last place, so it may return either neighbour of
\* a value that lies near the middle between two floats.  NearD is the set
\* of the floats less than 9/16 of a unit in the last place away from
\* (-1)^neg * n * 2^e, for n > 0.
NearD(neg, n, e) == NearDBits(neg, n, e, NBitLen(n))

FAbsInt(i) == IF i < 0 THEN -i ELSE i

\* float(i) for a Python int i
FFromInt(i) == RoundD(i < 0, NFromInt(FAbsInt(i)), 0)

\* float("n/d written as a decimal"): the float nearest to n / d
FFromRatio(n, d) == RoundQ(n < 0, NFromInt(FAbsInt(n)), NFromInt(d), 0)

FNeg(a) == IF a.m = << >> THEN a ELSE [a EXCEPT !.neg = ~a.neg]

FIsZero(a) == a.m = << >>

\* Exact values: [neg, n, e] is (-1)^neg * n * 2^e for any natural number n.
Exact(a) == [neg |-> a.neg, n |-> a.m, e |-> a.e]

\* the float nearest to an exact value
RoundExact(d) == RoundD(d.neg, d.n, d.e)

\* the sum of a.neg na 2^e and b.neg nb 2^e, c being the order of na and nb
DAddOrdered(a, b, na, nb, e, c) ==
    IF a.neg = b.neg THEN [neg |-> a.neg, n |-> NAdd(na, nb), e |-> e]
    ELSE IF c = 0 THEN [neg |-> FALSE, n |-> << >>, e |-> 0]
    ELSE [neg |-> IF c > 0 THEN a.neg ELSE b.neg,
          n   |-> NSub(IF c > 0 THEN na ELSE nb, IF c > 0 THEN nb ELSE na),
          e   |-> e]

DAddAligned(a, b, na, nb, e) == DAddOrdered(a, b, na, nb, e, NCmp(na, nb))

\* the sum of a and b with both brought to the exponent e
DAddAt(a, b, e) ==
    DAddAligned(a, b, NShl(a.n, a.e - e), NShl(b.n, b.e - e), e)

\* the exact sum of two exact values
DAdd(a, b) ==
    IF a.n = << >> THEN b
    ELSE IF b.n = << >> THEN a
    ELSE DAddAt(a, b, IF a.e < b.e THEN a.e ELSE b.e)

\* a + b
FAdd(a, b) == RoundExact(DAdd(Exact(a), Exact(b)))

\* a - b
FSub(a, b) == FAdd(a, FNeg(b))

\* a * b
FMul(a, b) == RoundD(a.neg # b.neg, NMul(a.m, b.m), a.e + b.e)

\* a / b, for b # 0
FDiv(a, b) == RoundQ(a.neg # b.neg, a.m, b.m, a.e - b.e)

RECURSIVE SmallTrailingZeros(_)
SmallTrailingZeros(d) == IF d % 2 = 1 THEN 0 ELSE 1 + SmallTrailingZeros(d \div 2)

\* the number of trailing zero bits of a > 0
RECURSIVE NTrailingZeros(_, _)
NTrailingZeros(a, k) ==
    IF a[k] = 0 THEN LimbBits + NTrailingZeros(a, k + 1)
    ELSE SmallTrailingZeros(a[k])

\* 1 / (odd * 2^e), given the quotient q of 1 / odd
FPowInverse(q, e) == [n |-> q.n, e |-> q.e - e]

\* odd * 2^e to the power +1 or -1, the sign of n saying which: the exact
\* value, or the inverse cut to a quotient
FPowValue(odd, e, n) ==
    IF n > 0 THEN [n |-> odd, e |-> e]
    ELSE FPowInverse(Quotient(<<1>>, odd), e)

\* the values pow may return for (-1)^neg * v.n * 2^v.e
FPowNear(neg, v) == NearD(neg, v.n, v.e)

\* x = (-1)^x.neg * (x.m / 2^tz) * 2^(x.e + tz) to the power k = |n|
FPowOdd(x, n, k, tz) ==
    FPowNear(x.neg /\ k % 2 = 1,
             FPowValue(NPow(NShr(x.m, tz), k), (x.e + tz) * k, n))

\* x ** n for a float x # 0 and a whole exponent n: the values the C
\* library's pow may return for the exact power.  The power is taken of
\* the odd part of the mantissa.
FPow(x, n) ==
    IF n = 0 THEN {FFromInt(1)}
    ELSE FPowOdd(x, n, FAbsInt(n), NTrailingZeros(x.m, 1))

\* the order of the magnitudes of two non-zero floats
FCmpAbs(a, b) ==
    LET e == IF a.e < b.e THEN a.e ELSE b.e
    IN  NCmp(NShl(a.m, a.e - e), NShl(b.m, b.e - e))

\* -1, 0 or 1 as a < b, a = b, a > b
FCmp(a, b) ==
    IF a.m = << >> THEN (IF b.m = << >> THEN 0 ELSE IF b.neg THEN 1 ELSE -1)
    ELSE IF b.m = << >> THEN (IF a.neg THEN -1 ELSE 1)
    ELSE IF a.neg # b.neg THEN (IF a.neg THEN -1 ELSE 1)
    ELSE FCmpAbs(IF a.neg THEN b ELSE a, IF a.neg THEN a ELSE b)

FLe(a, b) == FCmp(a, b) <= 0
FGt(a, b) == FCmp(a, b) > 0

\* max(a, b)
FMax(a, b) == IF FGt(b, a) THEN b ELSE a

\* the whole number of hundredths nearest to |x|, ties to even
FCents(x) ==
    IF x.e >= 0 THEN NMulSmall(NShl(x.m, x.e), 100)
    ELSE NRoundShr(NMulSmall(x.m, 100), -x.e)

\* round(x, 2): x correctly rounded to 2 decimals, then the nearest float
Round2(x) ==
    IF x.e >= 0 THEN x ELSE RoundQ(x.neg, FCents(x), <<100>>, 0)

\* int(round(x)): x rounded to the nearest integer, ties to even
RoundInt(x) ==
    (IF x.neg THEN -1 ELSE 1)
    * NToInt(IF x.e >= 0 THEN NShl(x.m, x.e) ELSE NRoundShr(x.m, -x.e))

(***************************************************************************)
(* The calculations                                                        *)
(***************************************************************************)
Returned(v) == [raised |-> FALSE, value |-> v]
Raised(exc) == [raised |-> TRUE, exc |-> exc]

\* annual_rate_percent / 100.0 / 12.0
MonthlyRate(annual_rate_percent) ==
    FDiv(FDiv(annual_rate_percent, FFromInt(100)), FFromInt(12))

\* a / 2^k rounded to the nearest natural number, ties upwards (downwards
\* in magnitude for a negative number)
NHalfUpShr(a, k, neg) ==
    IF NBit(a, k - 1) = 1 /\ (~neg \/ ~NLowBitsZero(a, k - 1))
    THEN NAdd(NShr(a, k), <<1>>)
    ELSE NShr(a, k)

\* floor(x + 0.5): x rounded to the nearest integer, ties upwards
RoundIntHalfUp(x) ==
    (IF x.neg THEN -1 ELSE 1)
    * NToInt(IF x.e >= 0 THEN NShl(x.m, x.e)
             ELSE NHalfUpShr(x.m, -x.e, x.neg))

\* NPayments with ties rounded half-up instead of to the even integer:
\* the variant that C10's amended formula tells from the code
NPaymentsHalfUp(years) == RoundIntHalfUp(FMul(years, FFromInt(12)))

\* int(round(years * 12))
NPayments(years) == RoundInt(FMul(years, FFromInt(12)))

\* the dictionary that simple_interest returns
SimpleResult(principal, interest) ==
    [principal |-> principal, interest |-> interest,
     total |-> FAdd(principal, interest)]

\* The outcomes of simple_interest.
simple_interest(principal, rate_percent, time_years) ==
    {Returned(SimpleResult(principal,
        FMul(FMul(principal, FDiv(rate_percent, FFromInt(100))),
             time_years)))}

\* the dictionary that compound_interest returns
CompoundResult(principal, amount) ==
    [principal |-> principal, amount |-> amount,
     interest |-> FSub(amount, principal)]

\* 1 + rate / n, for rate = rate_percent / 100.0
Growth(rate_percent, n) ==
    FAdd(FFromInt(1), FDiv(FDiv(rate_percent, FFromInt(100)), FFromInt(n)))

\* The outcomes of compound_interest.  n * time_years is a whole number for
\* every input of the model, so that the power has a whole exponent.
compound_interest(principal, rate_percent, time_years, n) ==
    IF n = 0 THEN {Raised("ZeroDivisionError")}
    ELSE {Returned(CompoundResult(principal, FMul(principal, power))) :
            power \in FPow(Growth(rate_percent, n),
                           RoundInt(FMul(FFromInt(n), time_years)))}

\* principal * monthly_rate / denominator
PaymentOver(principal, monthly_rate, denominator) ==
    IF FIsZero(denominator) THEN Raised("ZeroDivisionError")
    ELSE Returned(FDiv(FMul(principal, monthly_rate), denominator))

\* monthly_payment from its line 71 on, monthly_rate and n_payments being
\* computed
PaymentFor(principal, monthly_rate, n_payments) ==
    IF FIsZero(monthly_rate)
    THEN IF n_payments = 0 THEN {Raised("ZeroDivisionError")}
         ELSE {Returned(FDiv(principal, FFromInt(n_payments)))}
    ELSE {PaymentOver(principal, monthly_rate, FSub(FFromInt(1), power)) :
            power \in FPow(FAdd(FFromInt(1), monthly_rate), -n_payments)}

\* The outcomes of monthly_payment: a payment for each value pow may return,
\* or the exception of a division by zero.
monthly_payment(principal, annual_rate_percent, years) ==
    PaymentFor(principal, MonthlyRate(annual_rate_percent), NPayments(years))

\* CarriedBalance with the balance rounded as the row shows it: the variant
\* that C9's amended formula tells from the code
CarriedRounded(bal) == Round2(FMax(bal, FZero))

\* the balance that the next iteration of the schedule loop starts from
CarriedBalance(bal) == bal

\* the row of the schedule, and the payment and the balance that the next
\* iteration starts from
LoopRow(mon, pay, interest, principal_paid, bal) ==
    [payment |-> pay,
     balance |-> CarriedBalance(bal),
     row     |-> [month             |-> mon,
                  payment           |-> Round2(pay),
                  principal_paid    |-> Round2(principal_paid),
                  interest_paid     |-> Round2(interest),
                  remaining_balance |-> Round2(FMax(bal, FZero))]]

\* LoopFromBalance with the principal paid added to the balance: the
\* variant that C2's amended formula tells from the code
LoopFromBalanceAdded(mon, pay, bal, interest, principal_paid) ==
    LoopRow(mon, pay, interest, principal_paid, FAdd(bal, principal_paid))

\* line 95, balance -= principal_paid, and the row
LoopFromBalance(mon, pay, bal, interest, principal_paid) ==
    LoopRow(mon, pay, interest, principal_paid, FSub(bal, principal_paid))

\* lines 93-94, when principal_paid > balance (clamp): the rest of the
\* balance is paid, and the payment is the interest and that rest
LoopFromClamp(mon, pay, bal, interest, principal_paid, clamp) ==
    LoopFromBalance(mon, IF clamp THEN FAdd(interest, bal) ELSE pay, bal, interest,
             IF clamp THEN bal ELSE principal_paid)

\* line 92, the test principal_paid > balance
LoopFromPrincipalPaid(mon, pay, bal, interest, principal_paid) ==
    LoopFromClamp(mon, pay, bal, interest, principal_paid,
              FGt(principal_paid, bal))

\* line 90, principal_paid = payment - interest
LoopFromInterest(mon, pay, bal, interest) ==
    LoopFromPrincipalPaid(mon, pay, bal, interest, FSub(pay, interest))

\* One iteration of the loop of amortization_schedule, from line 89,
\* interest = balance * monthly_rate: the new payment, the new balance and
\* the row appended.
LoopIteration(mon, pay, bal, rate) ==
    LoopFromInterest(mon, pay, bal, FMul(bal, rate))

(***************************************************************************)
(* The inputs                                                              *)
(***************************************************************************)
\* the largest term on the command line's grid of terms, in eighths of a year
MaxYearsEighths == 8
\* the number of lines on standard input before its end
MaxLines == 6

None == [none |-> TRUE]
IsNone(v) == DOMAIN v = {"none"}

\* a decimal literal with the value n / d, and the float that float() makes
Decimal(n, d) == [n |-> n, d |-> d]
ToFloat(x) == FFromRatio(x.n, x.d)

PrincipalArgs == {Decimal(1000, 1), Decimal(1, 1), Decimal(9, 1000)}
RateArgs      == {Decimal(0, 1), Decimal(5, 1), Decimal(2400, 1)}
TimeArgs      == {Decimal(1, 1), Decimal(3, 1)}
NArgs         == {0, 1, 4}
YearsArgs     == {Decimal(j, 8) : j \in -1..MaxYearsEighths}
                     \cup {Decimal(1, 32), Decimal(18, 8), Decimal(23, 8)}
OutArgs       == {None, [name |-> "schedule.csv"]}

\* the Namespace that parse_args returns
Namespace(mode, principal, rate, time, n, years, out) ==
    [mode |-> mode, principal |-> principal, rate |-> rate, time |-> time,
     n |-> n, years |-> years, out |-> out]

NoArgs == Namespace("none", None, None, None, 1, None, None)

Optional(S) == S \cup {None}

\* The command lines: the text of each number, None for an option left out.
CommandLines ==
         {Namespace("simple", p, r, t, 1, None, None) :
            p \in Optional(PrincipalArgs), r \in Optional(RateArgs),
            t \in Optional(TimeArgs)}
    \cup {Namespace("compound", p, r, t, n, None, None) :
            p \in Optional(PrincipalArgs), r \in Optional(RateArgs),
            t \in Optional(TimeArgs), n \in NArgs}
    \cup {Namespace("loan", p, r, None, 1, y, None) :
            p \in Optional(PrincipalArgs), r \in Optional(RateArgs),
            y \in Optional(YearsArgs)}
    \cup {Namespace("amortization", p, r, None, 1, y, o) :
            p \in Optional(PrincipalArgs), r \in Optional(RateArgs),
            y \in Optional(YearsArgs), o \in OutArgs}
    \cup {Namespace("none", p, None, None, 1, None, None) :
            p \in PrincipalArgs}

\* type=float of an option
FloatOption(v) == IF IsNone(v) THEN None ELSE ToFloat(v)

\* parse_args: the options of type float are converted
ParseArgs(a) ==
    [a EXCEPT !.principal = FloatOption(a.principal),
              !.rate = FloatOption(a.rate),
              !.time = FloatOption(a.time),
              !.years = FloatOption(a.years)]

ScriptedArgs == {ParseArgs(a) : a \in CommandLines}

\* A line typed at a prompt: its text and, when the text is a number, the
\* number.
Number(text, n, d) == [text |-> text, numeric |-> TRUE, n |-> n, d |-> d]
Text(text) == [text |-> text, numeric |-> FALSE, n |-> 0, d |-> 1]

\* float(line)
ParseFloat(line) ==
    IF line.numeric THEN Returned(FFromRatio(line.n, line.d))
    ELSE Raised("ValueError")

\* int(line): only the text of a whole number is accepted
ParseInt(line) ==
    IF line.numeric /\ line.d = 1 THEN Returned(line.n)
    ELSE Raised("ValueError")

ChoiceLines    == {Number("0", 0, 1), Number("1", 1, 1), Number("2", 2, 1),
                   Number("3", 3, 1), Number("4", 4, 1), Number("7", 7, 1),
                   Text("abc")}
PrincipalLines == {Number("1000", 1000, 1), Text("abc")}
RateLines      == {Number("0", 0, 1), Number("5", 5, 1), Text("abc")}
TimeLines      == {Number("3", 3, 1), Text("abc")}
NLines         == {Number("0", 0, 1), Number("4", 4, 1), Number("0.5", 1, 2)}
YearsLines     == {Number("0", 0, 1), Number("0.125", 1, 8),
                   Number("0.375", 3, 8), Text("abc")}
FileLines      == {Text("schedule.csv")}

\* the prompts of each menu choice, in the order of their input() calls
Prompts ==
    [c \in 1..4 |->
        CASE c = 1 -> <<"principal", "rate", "time">>
          [] c = 2 -> <<"principal", "rate", "time", "n">>
          [] c = 3 -> <<"principal", "rate", "years">>
          [] c = 4 -> <<"principal", "rate", "years", "file">>]

LinesAt(prompt) ==
    CASE prompt = "principal" -> PrincipalLines
      [] prompt = "rate"      -> RateLines
      [] prompt = "time"      -> TimeLines
      [] prompt = "n"         -> NLines
      [] prompt = "years"     -> YearsLines
      [] prompt = "file"      -> FileLines

\* what the prompt's conversion makes of the line
Convert(prompt, line) ==
    CASE prompt = "n"    -> ParseInt(line)
      [] prompt = "file" -> Returned([name |-> line.text])
      [] OTHER           -> ParseFloat(line)

(***************************************************************************)
(* The program                                                             *)
(***************************************************************************)
VARIABLES
    interactive,          \* len(sys.argv) == 1
    args,                 \* the Namespace parsed from the command line
    pc,                   \* where the process is: "main", "menu", "field",
                          \* "loop", "returned" or "done"
    status,               \* "running", "exit 0", "exit 2" or the exception
                          \* that ended the process
    stdout,               \* the last message printed
    res,                  \* the last call of a calculation and its outcome
    file,                 \* the CSV file
    linesRead,            \* the lines read from standard input
    choice,               \* the menu choice being served
    fields,               \* the values read at the prompts of the choice
    \* the running call of amortization_schedule: its parameters and locals
    principal, annual_rate_percent, years,
    monthly_rate, n_payments, payment, balance, month, schedule

sessionVars == <<linesRead, choice, fields>>
callVars == <<principal, annual_rate_percent, years, monthly_rate, n_payments,
              payment, balance, month, schedule>>
vars == <<interactive, args, pc, status, stdout, res, file, sessionVars,
          callVars>>

Result(fn, arguments, outcome) ==
    [fn |-> fn, args |-> arguments, outcome |-> outcome]

NoFile == [exists |-> FALSE, header |-> << >>, rows |-> << >>]

\* export_schedule_to_csv: the file is opened for writing, which empties it,
\* then the header and one record per row are written
CsvFile(rows) ==
    [exists |-> TRUE,
     header |-> <<"month", "payment", "principal_paid", "interest_paid",
                  "remaining_balance">>,
     rows   |-> rows]

NoCall ==
    /\ principal' = None /\ annual_rate_percent' = None /\ years' = None
    /\ monthly_rate' = None /\ n_payments' = None /\ payment' = None
    /\ balance' = None /\ month' = None /\ schedule' = << >>

Init ==
    /\ interactive \in BOOLEAN
    /\ args \in (IF interactive THEN {NoArgs} ELSE ScriptedArgs)
    /\ pc = "main"
    /\ status = "running"
    /\ stdout = ""
    /\ res = None
    /\ file = NoFile
    /\ linesRead = 0
    /\ choice = None
    /\ fields = << >>
    /\ principal = None /\ annual_rate_percent = None /\ years = None
    /\ monthly_rate = None /\ n_payments = None /\ payment = None
    /\ balance = None /\ month = None /\ schedule = << >>

\* The process ends: normally, or with the exception nobody caught.
Ends(how, message) ==
    /\ pc' = "done"
    /\ status' = how
    /\ stdout' = message

----------------------------------------------------------------------------
(* amortization_schedule *)

\* The entry of amortization_schedule, up to its loop; the exception of
\* monthly_payment passes through it and through its caller.
EnterSchedule(p, r, y) ==
    \E m \in monthly_payment(p, r, y) :
        /\ principal' = p /\ annual_rate_percent' = r /\ years' = y
        /\ monthly_rate' = MonthlyRate(r)
        /\ n_payments' = NPayments(y)
        /\ schedule' = << >>
        /\ IF m.raised
           THEN /\ payment' = None /\ balance' = None /\ month' = None
                /\ res' = Result("amortization_schedule", <<p, r, y>>, m)
                /\ Ends(m.exc, stdout)
           ELSE /\ payment' = m.value /\ balance' = p /\ month' = 1
                /\ res' = None
                /\ pc' = "loop"
                /\ UNCHANGED <<status, stdout>>

\* the iteration leaves its payment, its balance and one more row
Iterated(it) ==
    /\ payment' = it.payment
    /\ balance' = it.balance
    /\ schedule' = Append(schedule, it.row)

LoopBody ==
    /\ pc = "loop"
    /\ month <= n_payments
    /\ Iterated(LoopIteration(month, payment, balance, monthly_rate))
    /\ month' = month + 1
    /\ UNCHANGED <<interactive, args, pc, status, stdout, res, file,
                   sessionVars, principal, annual_rate_percent, years,
                   monthly_rate, n_payments>>

LoopExit ==
    /\ pc = "loop"
    /\ month > n_payments
    /\ pc' = "returned"
    /\ res' = Result("amortization_schedule",
                     <<principal, annual_rate_percent, years>>,
                     Returned(schedule))
    /\ UNCHANGED <<interactive, args, status, stdout, file, sessionVars,
                   callVars>>

----------------------------------------------------------------------------
(* main with arguments *)

MainSimple ==
    /\ pc = "main" /\ ~interactive /\ args.mode = "simple"
    /\ IF IsNone(args.principal) \/ IsNone(args.rate) \/ IsNone(args.time)
       THEN /\ Ends("exit 2", "usage") /\ res' = res
       ELSE \E o \in simple_interest(args.principal, args.rate, args.time) :
               /\ res' = Result("simple_interest",
                                <<args.principal, args.rate, args.time>>, o)
               /\ Ends("exit 0", "Simple Interest Result")
    /\ UNCHANGED <<interactive, args, file, sessionVars, callVars>>

MainCompound ==
    /\ pc = "main" /\ ~interactive /\ args.mode = "compound"
    /\ IF IsNone(args.principal) \/ IsNone(args.rate) \/ IsNone(args.time)
       THEN /\ Ends("exit 2", "usage") /\ res' = res
       ELSE \E o \in compound_interest(args.principal, args.rate, args.time,
                                       args.n) :
               /\ res' = Result("compound_interest",
                                <<args.principal, args.rate, args.time,
                                  args.n>>, o)
               /\ IF o.raised THEN Ends(o.exc, stdout)
                  ELSE Ends("exit 0", "Compound Interest Result")
    /\ UNCHANGED <<interactive, args, file, sessionVars, callVars>>

MainLoan ==
    /\ pc = "main" /\ ~interactive /\ args.mode = "loan"
    /\ IF IsNone(args.principal) \/ IsNone(args.rate) \/ IsNone(args.years)
       THEN /\ Ends("exit 2", "usage") /\ res' = res
       ELSE \E o \in monthly_payment(args.principal, args.rate, args.years) :
               /\ res' = Result("monthly_payment",
                                <<args.principal, args.rate, args.years>>, o)
               /\ IF o.raised THEN Ends(o.exc, stdout)
                  ELSE Ends("exit 0", "Loan Payment Result")
    /\ UNCHANGED <<interactive, args, file, sessionVars, callVars>>

MainAmortization ==
    /\ pc = "main" /\ ~interactive /\ args.mode = "amortization"
    /\ IF IsNone(args.principal) \/ IsNone(args.rate) \/ IsNone(args.years)
       THEN /\ Ends("exit 2", "usage") /\ res' = res
            /\ UNCHANGED callVars
       ELSE EnterSchedule(args.principal, args.rate, args.years)
    /\ UNCHANGED <<interactive, args, file, sessionVars>>

\* MainExport writing the rows made so far while the schedule is still being
\* generated: the variant that C7's formula tells from the code
MainExportWhileLooping ==
    /\ pc = "loop" /\ ~interactive
    /\ ~IsNone(args.out)
    /\ file' = CsvFile(schedule)
    /\ UNCHANGED <<interactive, args, pc, status, stdout, res, sessionVars,
                   callVars>>

MainExport ==
    /\ pc = "returned" /\ ~interactive
    /\ ~IsNone(args.out)
    /\ file' = CsvFile(schedule)
    /\ Ends("exit 0", "Exported amortization schedule")
    /\ UNCHANGED <<interactive, args, res, sessionVars, callVars>>

MainPrintSchedule ==
    /\ pc = "returned" /\ ~interactive
    /\ IsNone(args.out)
    /\ Ends("exit 0", "Amortization schedule (first 12 rows)")
    /\ UNCHANGED <<interactive, args, res, file, sessionVars, callVars>>

MainHelp ==
    /\ pc = "main" /\ ~interactive /\ args.mode = "none"
    /\ Ends("exit 0", "help")
    /\ UNCHANGED <<interactive, args, res, file, sessionVars, callVars>>

----------------------------------------------------------------------------
(* main without arguments: the menu, over and over *)

MainInteractive ==
    /\ pc = "main" /\ interactive
    /\ pc' = "menu"
    /\ UNCHANGED <<interactive, args, status, stdout, res, file, sessionVars,
                   callVars>>

\* interactive_menu returned; main's loop calls it again
BackToMenu(message) ==
    /\ pc' = "menu"
    /\ stdout' = message
    /\ choice' = None
    /\ fields' = << >>
    /\ UNCHANGED status

\* input() finds the end of standard input, or the user interrupts
EndOfInput ==
    /\ pc \in {"menu", "field"}
    /\ Ends("exit 0", "Exiting")
    /\ UNCHANGED <<interactive, args, res, file, sessionVars, callVars>>

MenuChoice ==
    /\ pc = "menu"
    /\ linesRead < MaxLines
    /\ linesRead' = linesRead + 1
    /\ \E line \in ChoiceLines :
          LET c == ParseInt(line)
          IN  IF c.raised THEN BackToMenu("Invalid choice")
              ELSE IF c.value \in 1..4
              THEN /\ pc' = "field"
                   /\ choice' = c.value
                   /\ fields' = << >>
                   /\ UNCHANGED <<status, stdout>>
              ELSE IF c.value = 0
              THEN /\ Ends("exit 0", "Goodbye")
                   /\ UNCHANGED <<choice, fields>>
              ELSE BackToMenu("Invalid choice")
    /\ UNCHANGED <<interactive, args, res, file, callVars>>

\* the conversion raised, which nobody catches, or its value is kept
FieldConverted(v) ==
    IF v.raised
    THEN /\ Ends(v.exc, stdout)
         /\ fields' = fields
    ELSE /\ fields' = Append(fields, v.value)
         /\ UNCHANGED <<pc, status, stdout>>

\* one prompt of the choice: the line is read and converted
MenuPrompt ==
    /\ pc = "field"
    /\ Len(fields) < Len(Prompts[choice])
    /\ linesRead < MaxLines
    /\ linesRead' = linesRead + 1
    /\ \E line \in LinesAt(Prompts[choice][Len(fields) + 1]) :
          FieldConverted(Convert(Prompts[choice][Len(fields) + 1], line))
    /\ UNCHANGED <<interactive, args, res, file, choice, callVars>>

AllFieldsRead(c) ==
    /\ pc = "field"
    /\ choice = c
    /\ Len(fields) = Len(Prompts[c])

MenuSimple ==
    /\ AllFieldsRead(1)
    /\ \E o \in simple_interest(fields[1], fields[2], fields[3]) :
          /\ res' = Result("simple_interest", fields, o)
          /\ BackToMenu("Total amount")
    /\ UNCHANGED <<interactive, args, file, linesRead, callVars>>

MenuCompound ==
    /\ AllFieldsRead(2)
    /\ \E o \in compound_interest(fields[1], fields[2], fields[3], fields[4]) :
          /\ res' = Result("compound_interest", fields, o)
          /\ IF o.raised
             THEN /\ Ends(o.exc, stdout)
                  /\ UNCHANGED <<choice, fields>>
             ELSE BackToMenu("Interest earned")
    /\ UNCHANGED <<interactive, args, file, linesRead, callVars>>

MenuLoan ==
    /\ AllFieldsRead(3)
    /\ \E o \in monthly_payment(fields[1], fields[2], fields[3]) :
          /\ res' = Result("monthly_payment", fields, o)
          /\ IF o.raised
             THEN /\ Ends(o.exc, stdout)
                  /\ UNCHANGED <<choice, fields>>
             ELSE BackToMenu("Total paid")
    /\ UNCHANGED <<interactive, args, file, linesRead, callVars>>

MenuAmortization ==
    /\ AllFieldsRead(4)
    /\ EnterSchedule(fields[1], fields[2], fields[3])
    /\ UNCHANGED <<interactive, args, file, sessionVars>>

MenuExport ==
    /\ pc = "returned" /\ interactive
    /\ file' = CsvFile(schedule)
    /\ BackToMenu("Schedule exported")
    /\ NoCall
    /\ UNCHANGED <<interactive, args, res, linesRead>>

----------------------------------------------------------------------------
Next ==
    \/ MainInteractive
    \/ MainSimple
    \/ MainCompound
    \/ MainLoan
    \/ MainAmortization
    \/ MainHelp
    \/ LoopBody
    \/ LoopExit
    \/ MainExport
    \/ MainPrintSchedule
    \/ MenuChoice
    \/ MenuPrompt
    \/ MenuSimple
    \/ MenuCompound
    \/ MenuLoan
    \/ MenuAmortization
    \/ MenuExport
    \/ EndOfInput

Spec == Init /\ [][Next]_vars

(***************************************************************************)
(* The claims                                                              *)
(***************************************************************************)
\* a call of amortization_schedule is running or has just returned
InSchedule == pc \in {"loop", "returned"}

\* valid LoanTerms: principal > 0, annual_rate_percent >= 0, years > 0
ValidTerms ==
    /\ ~FIsZero(principal) /\ ~principal.neg
    /\ ~annual_rate_percent.neg
    /\ ~FIsZero(years) /\ ~years.neg

\* amortization_schedule has returned a schedule with rows for valid terms
ValidSchedule == pc = "returned" /\ ValidTerms /\ Len(schedule) >= 1

LastRow == schedule[Len(schedule)]

\* 0.01
Cent == FFromRatio(1, 100)

\* C1: for valid terms, the last row of the schedule that
\* amortization_schedule returns has a remaining_balance of 0.00 within a
\* tolerance of 0.01.
C1_FinalBalanceZero ==
    ValidSchedule => FLe(LastRow.remaining_balance, Cent)

\* no row has a negative remaining_balance, and none has a larger one than
\* the row before it
BalancesDescend ==
    \A i \in 1..Len(schedule) :
        /\ ~schedule[i].remaining_balance.neg
        /\ i > 1 => FLe(schedule[i].remaining_balance,
                        schedule[i - 1].remaining_balance)

\* C2 as stated: for valid terms remaining_balance is never negative, never
\* increases from one row to the next, and in the first row does not exceed
\* the principal.
C2_BalanceWithinPrincipal ==
    (InSchedule /\ ValidTerms /\ Len(schedule) >= 1) =>
        /\ BalancesDescend
        /\ FLe(schedule[1].remaining_balance, principal)

\* C2 as amended: for valid terms remaining_balance is never negative, never
\* increases from one row to the next, and in the first row does not exceed
\* the principal rounded to 2 decimals.
C2_BalanceWithinRoundedPrincipal ==
    (InSchedule /\ ValidTerms /\ Len(schedule) >= 1) =>
        /\ BalancesDescend
        /\ FLe(schedule[1].remaining_balance, Round2(principal))

\* a schedule for valid terms whose first row shows more than the principal
\* and whose balance has come down to zero since
C2_Witness ==
    /\ ValidSchedule
    /\ FGt(schedule[1].remaining_balance, principal)
    /\ FIsZero(LastRow.remaining_balance)
    /\ Len(schedule) >= 4

\* the exact sum of principal_paid over the rows 1..k
RECURSIVE PrincipalPaidSum(_)
PrincipalPaidSum(k) ==
    IF k = 0 THEN Exact(FZero)
    ELSE DAdd(PrincipalPaidSum(k - 1), Exact(schedule[k].principal_paid))

\* 100 * |d| <= n for an exact value d and a natural number n
WithinCents(d, n) ==
    IF d.e >= 0 THEN NCmp(NMulSmall(NShl(d.n, d.e), 100), NFromInt(n)) <= 0
    ELSE NCmp(NMulSmall(d.n, 100), NShl(NFromInt(n), -d.e)) <= 0

\* C3: for valid terms, the sum of principal_paid over the N rows of the
\* returned schedule equals the principal within N x 0.01.
C3_PrincipalPaidSumsToPrincipal ==
    ValidSchedule =>
        WithinCents(DAdd(PrincipalPaidSum(Len(schedule)),
                         Exact(FNeg(principal))),
                    Len(schedule))

\* C4: when round(years x 12) <= 0, monthly_payment and
\* amortization_schedule fail with InvalidTerm, and no schedule is computed
\* with a period count below 1.
C4_InvalidTermRaised ==
    /\ (/\ ~IsNone(res)
        /\ res.fn \in {"monthly_payment", "amortization_schedule"}
        /\ NPayments(res.args[3]) <= 0)
       => res.outcome = Raised("InvalidTerm")
    /\ InSchedule => n_payments >= 1

\* C5: compound_interest called with n = 0 fails with
\* InvalidCompoundingFrequency.
C5_InvalidCompoundingFrequencyRaised ==
    (/\ ~IsNone(res)
     /\ res.fn = "compound_interest"
     /\ res.args[4] = 0)
    => res.outcome = Raised("InvalidCompoundingFrequency")

\* C6: the interactive session never ends through the uncaught error of a
\* non-numeric value entered at a field prompt: the value is reported and
\* the session goes back to the menu.
C6_MalformedInputReturnsToMenu ==
    interactive => status # "ValueError"

\* C7: the CSV file is written only by a step taken after
\* amortization_schedule has returned, and what is written is the complete
\* schedule it returned; no other step, so none of a failed generation,
\* writes or truncates the file.
C7_ExportAfterCompleteSchedule ==
    [][file' # file =>
          /\ pc = "returned"
          /\ month > n_payments
          /\ res = Result("amortization_schedule",
                          <<principal, annual_rate_percent, years>>,
                          Returned(schedule))
          /\ file' = CsvFile(schedule)]_vars

\* a schedule with rows has been exported
C7_Witness == file.exists /\ Len(file.rows) >= 2

\* C8: the payment is the same in every row of a schedule except possibly
\* the last, row N.
C8_PaymentConstantBeforeLastRow ==
    InSchedule =>
        \A i \in 1..Len(schedule) :
            i < n_payments => schedule[i].payment = schedule[1].payment

\* the step is an iteration of the schedule loop after the first
LaterIteration ==
    /\ pc = "loop"
    /\ Len(schedule) >= 1
    /\ Len(schedule') = Len(schedule) + 1

\* C9 as stated: the interest of period k+1 is computed from the rounded
\* remaining_balance recorded in row k.
C9_InterestFromRoundedBalance ==
    [][LaterIteration =>
          schedule'[Len(schedule')].interest_paid
              = Round2(FMul(LastRow.remaining_balance, monthly_rate))]_vars

\* principal_paid before it is rounded for the row
UnroundedPrincipalPaid ==
    IF FGt(FSub(payment, FMul(balance, monthly_rate)), balance) THEN balance
    ELSE FSub(payment, FMul(balance, monthly_rate))

\* C9 as amended: the interest of period k+1 is computed from the running
\* balance, which is carried from period to period without rounding: the
\* balance of period k less the unrounded principal_paid.  The row shows
\* both rounded to 2 decimals.
C9_InterestFromRunningBalance ==
    [][LaterIteration =>
          /\ schedule'[Len(schedule')].interest_paid
                 = Round2(FMul(balance, monthly_rate))
          /\ balance' = FSub(balance, UnroundedPrincipalPaid)
          /\ schedule'[Len(schedule')].remaining_balance
                 = Round2(FMax(balance', FZero))]_vars

\* a row whose interest differs from the interest on the rounded balance of
\* the row before it
C9_Witness ==
    /\ InSchedule
    /\ Len(schedule) >= 2
    /\ LastRow.interest_paid
           # Round2(FMul(schedule[Len(schedule) - 1].remaining_balance,
                         monthly_rate))

\* years * 12, as monthly_payment and amortization_schedule compute it
MonthsOf(y) == FMul(y, FFromInt(12))

\* x = k + 0.5 for an integer k >= 0
IsHalfway(x) ==
    /\ ~FIsZero(x) /\ ~x.neg
    /\ x.e < 0
    /\ NLowBitsZero(x.m, -x.e - 1)
    /\ NBit(x.m, -x.e - 1) = 1

\* the integer part of x >= 0
Floor(x) == NToInt(NShr(x.m, -x.e))

\* amortization_schedule has returned, for a term halfway between k and
\* k + 1 months
TieReturned == pc = "returned" /\ IsHalfway(MonthsOf(years))

\* monthly_payment was called with a rate of zero for a term halfway between
\* k and k + 1 months, k >= 1: its result, principal / N, shows N
TieLoanCalled ==
    /\ ~IsNone(res)
    /\ res.fn = "monthly_payment"
    /\ FIsZero(res.args[2])
    /\ IsHalfway(MonthsOf(res.args[3]))
    /\ Floor(MonthsOf(res.args[3])) >= 1

\* C10 as stated: when years x 12 = k + 0.5, the period count is k + 1 and
\* the schedule has k + 1 rows, for even k as well as odd k.
C10_TiesRoundHalfUp ==
    /\ TieReturned =>
           /\ n_payments = Floor(MonthsOf(years)) + 1
           /\ Len(schedule) = n_payments
    /\ TieLoanCalled =>
           res.outcome = Returned(FDiv(res.args[1],
               FFromInt(Floor(MonthsOf(res.args[3])) + 1)))

\* the even one of k and k + 1
EvenNeighbour(k) == IF k % 2 = 0 THEN k ELSE k + 1

\* C10 as amended: when years x 12 = k + 0.5, the period count is the even
\* one of k and k + 1 (ties go to the even integer), and a schedule that
\* amortization_schedule returns has that many rows.
C10_TiesRoundHalfEven ==
    /\ TieReturned =>
           /\ n_payments = EvenNeighbour(Floor(MonthsOf(years)))
           /\ Len(schedule) = n_payments
    /\ TieLoanCalled =>
           res.outcome = Returned(FDiv(res.args[1],
               FFromInt(EvenNeighbour(Floor(MonthsOf(res.args[3]))))))

\* a schedule of 4 rows for a term of 4.5 months
C10_Witness ==
    /\ TieReturned
    /\ Floor(MonthsOf(years)) = 4
    /\ Len(schedule) = 4

====
